---- MODULE Spec2Model ----
(***************************************************************************)
(* A model of torch/fx/passes/infra/pass_manager.py: the constraint model, *)
(* the topological scheduler, the schedule validator and the PassManager   *)
(* with its convergence loop.                                              *)
(***************************************************************************)
EXTENDS Integers, Sequences, FiniteSets, TLC

(***************************************************************************)
(* Bounds of the model.                                                    *)
(***************************************************************************)
\* longest pass list / constraint list handed to the scheduler in SpecSort
MaxSortPasses == 3
MaxSortConstraints == 3
\* longest pass list / constraint list a manager of Spec is grown to
MaxPasses == 2
MaxConstraints == 2
\* largest step budget a manager is constructed with
MaxSteps == 3

\* The passes: opaque values compared by identity only.
Passes == {"A", "B", "C"}
\* The passes registered with the managers of Spec.
ManagerPasses == {"A", "B"}
\* Python's None (the initial min_degree_pass of break_cycles).
None == "None"
\* The step budgets of the managers of SpecSort: 1 tolerates no cycle, every
\* larger budget does.
SortSteps == {1, 2}
\* The modules a pass may return.
Modules == {"m0", "m1"}

Range(s) == {s[i] : i \in 1..Len(s)}

SeqsUpTo(S, n) == UNION {[1..k -> S] : k \in 0..n}

Distinct(s) == \A i, j \in 1..Len(s) : i # j => s[i] # s[j]

\* The dictionary {p : v for p in S}, built explicitly.
RECURSIVE Dict(_, _)
Dict(S, v) ==
    IF S = {} THEN <<>>
    ELSE LET x == CHOOSE x \in S : TRUE IN (x :> v) @@ Dict(S \ {x}, v)

(***************************************************************************)
(* Constraint model                                                        *)
(***************************************************************************)
\* The constraint "this must occur before that", kept as its two captured
\* passes.
this_before_that_pass_constraint(this, that) == [this |-> this, that |-> that]

\* The predicate of a constraint built by this_before_that_pass_constraint.
depends_on(constraint, a, b) ==
    IF a = constraint.that /\ b = constraint.this THEN FALSE ELSE TRUE

\* Every constraint the helper builds over a set of distinct passes.
ConstraintsOver(S) ==
    {this_before_that_pass_constraint(q[1], q[2]) :
        q \in {p \in S \X S : p[1] # p[2]}}

(***************************************************************************)
(* Topological scheduler                                                   *)
(*                                                                         *)
(* The loops are recursive operators over the loop's state st.  A loop     *)
(* continues with "CHOOSE r \in {Loop(x, ...) : x \in {next}} : TRUE",     *)
(* which is Loop(next, ...) with next evaluated before the call.           *)
(***************************************************************************)
\* AddEdges with the user recorded under the wrong key: graph[a].append(b).
RECURSIVE AddEdgesWrongKey(_, _, _, _)
AddEdgesWrongKey(st, a, b, cs) ==
    IF cs = <<>> THEN st
    ELSE LET st1 == IF ~depends_on(Head(cs), a, b)
                    THEN [st EXCEPT !.graph[a] = Append(@, b),
                                    !.indegree_map[a] = @ + 1]
                    ELSE st
         IN  CHOOSE r \in {AddEdgesWrongKey(x, a, b, Tail(cs)) : x \in {st1}} :
                 TRUE

\* for constraint in constraints: if not constraint(a, b): append, count
RECURSIVE AddEdges(_, _, _, _)
AddEdges(st, a, b, cs) ==
    IF cs = <<>> THEN st
    ELSE LET st1 == IF ~depends_on(Head(cs), a, b)
                    THEN [st EXCEPT !.graph[b] = Append(@, a),
                                    !.indegree_map[a] = @ + 1]
                    ELSE st
         IN  CHOOSE r \in {AddEdges(x, a, b, Tail(cs)) : x \in {st1}} : TRUE

\* for b in passes: if a == b: continue
RECURSIVE ScanUsers(_, _, _, _, _)
ScanUsers(st, a, ps, cs, j) ==
    IF j > Len(ps) THEN st
    ELSE CHOOSE r \in {ScanUsers(x, a, ps, cs, j + 1) :
                      x \in {IF a = ps[j] THEN st ELSE AddEdges(st, a, ps[j], cs)}} : TRUE

\* BuildGraph with the in-degree tested before the users of a are counted.
RECURSIVE BuildGraphSeedFirst(_, _, _, _)
BuildGraphSeedFirst(st, ps, cs, i) ==
    IF i > Len(ps) THEN st
    ELSE LET a   == ps[i]
             st1 == IF st.indegree_map[a] = 0
                    THEN [st EXCEPT !.candidates = Append(@, a)]
                    ELSE st
             st2 == ScanUsers(st1, a, ps, cs, 1)
         IN  CHOOSE r \in {BuildGraphSeedFirst(x, ps, cs, i + 1) : x \in {st2}} :
                 TRUE

\* for a in passes: ...; if indegree_map[a] == 0: candidates.put(a)
RECURSIVE BuildGraph(_, _, _, _)
BuildGraph(st, ps, cs, i) ==
    IF i > Len(ps) THEN st
    ELSE LET a   == ps[i]
             st1 == ScanUsers(st, a, ps, cs, 1)
             st2 == IF st1.indegree_map[a] = 0
                    THEN [st1 EXCEPT !.candidates = Append(@, a)]
                    ELSE st1
         IN  CHOOSE r \in {BuildGraph(x, ps, cs, i + 1) : x \in {st2}} : TRUE

\* The scan of break_cycles taking the last unvisited pass of minimum
\* in-degree ("elif min_degree >= indegree_map[p]").
RECURSIVE ScanMinDegreeLast(_, _, _, _)
ScanMinDegreeLast(st, ps, i, acc) ==
    IF i > Len(ps) \/ ~acc.assert_ok THEN acc
    ELSE LET p == ps[i] IN
         IF st.visited[p]
         THEN ScanMinDegreeLast(st, ps, i + 1,
                  [acc EXCEPT !.assert_ok = (st.indegree_map[p] = 0)])
         ELSE IF acc.min_degree = -1 \/ acc.min_degree >= st.indegree_map[p]
         THEN ScanMinDegreeLast(st, ps, i + 1,
                  [acc EXCEPT !.min_degree = st.indegree_map[p],
                              !.min_degree_pass = p])
         ELSE ScanMinDegreeLast(st, ps, i + 1, acc)

\* The scan of break_cycles over passes: the assertion on visited passes and
\* the first unvisited pass of minimum in-degree.
RECURSIVE ScanMinDegree(_, _, _, _)
ScanMinDegree(st, ps, i, acc) ==
    IF i > Len(ps) \/ ~acc.assert_ok THEN acc
    ELSE LET p == ps[i] IN
         IF st.visited[p]
         THEN ScanMinDegree(st, ps, i + 1,
                            [acc EXCEPT !.assert_ok = (st.indegree_map[p] = 0)])
         ELSE IF acc.min_degree = -1
         THEN ScanMinDegree(st, ps, i + 1,
                            [acc EXCEPT !.min_degree = st.indegree_map[p],
                                        !.min_degree_pass = p])
         ELSE IF acc.min_degree > st.indegree_map[p]
         THEN ScanMinDegree(st, ps, i + 1,
                            [acc EXCEPT !.min_degree = st.indegree_map[p],
                                        !.min_degree_pass = p])
         ELSE ScanMinDegree(st, ps, i + 1, acc)

\* break_cycles with "circular_dependency = True" ahead of
\* "if min_degree_pass:".
break_cycles_always_flags(st, ps) ==
    IF st.candidates # <<>> THEN st
    ELSE LET m == ScanMinDegree(st, ps, 1,
                      [min_degree |-> -1, min_degree_pass |-> None,
                       assert_ok |-> TRUE])
         IN  IF ~m.assert_ok THEN [st EXCEPT !.error = "AssertionError"]
             ELSE IF m.min_degree_pass # None
             THEN [st EXCEPT !.circular_dependency = TRUE,
                             !.candidates = Append(@, m.min_degree_pass),
                             !.indegree_map[m.min_degree_pass] = 0,
                             !.broken = @ + m.min_degree]
             ELSE [st EXCEPT !.circular_dependency = TRUE]

\* break_cycles without "indegree_map[min_degree_pass] = 0".
break_cycles_no_reset(st, ps) ==
    IF st.candidates # <<>> THEN st
    ELSE LET m == ScanMinDegree(st, ps, 1,
                      [min_degree |-> -1, min_degree_pass |-> None,
                       assert_ok |-> TRUE])
         IN  IF ~m.assert_ok THEN [st EXCEPT !.error = "AssertionError"]
             ELSE IF m.min_degree_pass # None
             THEN [st EXCEPT !.circular_dependency = TRUE,
                             !.candidates = Append(@, m.min_degree_pass),
                             !.broken = @ + m.min_degree]
             ELSE st

break_cycles(st, ps) ==
    IF st.candidates # <<>> THEN st
    ELSE LET m == ScanMinDegree(st, ps, 1,
                      [min_degree |-> -1, min_degree_pass |-> None,
                       assert_ok |-> TRUE])
         IN  IF ~m.assert_ok THEN [st EXCEPT !.error = "AssertionError"]
             ELSE IF m.min_degree_pass # None
             THEN [st EXCEPT !.circular_dependency = TRUE,
                             !.candidates = Append(@, m.min_degree_pass),
                             !.indegree_map[m.min_degree_pass] = 0,
                             !.broken = @ + m.min_degree]
             ELSE st

\* for n in graph[p]: if not visited[n]: decrement, enqueue on zero
RECURSIVE Unblock(_, _)
Unblock(st, ns) ==
    IF ns = <<>> THEN st
    ELSE LET n == Head(ns) IN
         IF ~st.visited[n]
         THEN LET st1 == [st EXCEPT !.indegree_map[n] = @ - 1] IN
              Unblock(IF st1.indegree_map[n] = 0
                      THEN [st1 EXCEPT !.candidates = Append(@, n)]
                      ELSE st1,
                      Tail(ns))
         ELSE Unblock(st, Tail(ns))

\* while not candidates.empty(): ...
RECURSIVE Drain(_, _)
Drain(st, ps) ==
    IF st.error # "none" \/ st.candidates = <<>> THEN st
    ELSE LET p   == Head(st.candidates)
             st1 == [st EXCEPT !.candidates = Tail(@),
                               !.sorted_passes = Append(@, p),
                               !.visited[p] = TRUE]
             st2 == Unblock(st1, st1.graph[p])
         IN  CHOOSE r \in {Drain(x, ps) : x \in {break_cycles(st2, ps)}} : TRUE

\* The scheduler's result: the order, the cycle flag, the exception raised
\* ("none" when it returns), and the sum of the in-degrees overridden by
\* break_cycles.
topological_sort_passes(ps, cs) ==
    IF Len(cs) = 0
    THEN [sorted_passes |-> ps, circular_dependency |-> FALSE,
          error |-> "none", broken |-> 0]
    ELSE LET st0 == BuildGraph(
                        [graph |-> Dict(Range(ps), <<>>),
                         indegree_map |-> Dict(Range(ps), 0),
                         candidates |-> <<>>],
                        ps, cs, 1)
             st1 == [graph |-> st0.graph,
                     indegree_map |-> st0.indegree_map,
                     candidates |-> st0.candidates,
                     visited |-> Dict(Range(ps), FALSE),
                     sorted_passes |-> <<>>,
                     circular_dependency |-> FALSE,
                     error |-> "none",
                     broken |-> 0]
             st  == Drain(break_cycles(st1, ps), ps)
         IN  [sorted_passes |-> st.sorted_passes,
              circular_dependency |-> st.circular_dependency,
              error |-> st.error,
              broken |-> st.broken]

(***************************************************************************)
(* Schedule validator                                                      *)
(***************************************************************************)
\* The pairs (i, j) at which _validate_pass_schedule_constraint finds the
\* constraint false: i is the index of a in passes and j the index of b in
\* the slice passes[i + 1 :], both counted from 0 as enumerate does.
Violations(constraint, ps) ==
    {ij \in (0..(Len(ps) - 1)) \X (0..(Len(ps) - 1)) :
        /\ ij[1] + 1 + ij[2] + 1 <= Len(ps)
        /\ ~depends_on(constraint, ps[ij[1] + 1], ps[ij[1] + 1 + ij[2] + 1])}

\* What _validate_pass_schedule_constraint yields when it returns normally.
NoViolation == [a |-> None, b |-> None, i |-> -1, j |-> -1]

\* NoViolation when the constraint holds for every pair, else what the
\* RuntimeError of the first violation (in loop order) reports: a, b, i, j.
validate_pass_schedule_constraint(constraint, ps) ==
    LET V == Violations(constraint, ps) IN
    IF V = {} THEN NoViolation
    ELSE LET ij == CHOOSE v \in V :
                       \A w \in V : v[1] < w[1] \/ (v[1] = w[1] /\ v[2] <= w[2])
         IN  [a |-> ps[ij[1] + 1], b |-> ps[ij[1] + 1 + ij[2] + 1],
              i |-> ij[1], j |-> ij[2]]

\* for constraint in self.constraints: the first error raised, if any
RECURSIVE FirstScheduleError(_, _, _)
FirstScheduleError(cs, ps, k) ==
    IF k > Len(cs) THEN NoViolation
    ELSE LET e == validate_pass_schedule_constraint(cs[k], ps) IN
         IF e # NoViolation THEN e ELSE FirstScheduleError(cs, ps, k + 1)

(***************************************************************************)
(* PassManager                                                             *)
(***************************************************************************)
VARIABLES
    passes,                      \* self.passes
    constraints,                 \* self.constraints
    validated,                   \* self._validated
    steps,                       \* self.steps
    run_checks_after_each_pass,  \* self.run_checks_after_each_pass
    suppress_check_failures,     \* self.suppress_check_failures
    pc,                          \* "idle", or "running" inside __call__'s loops
    module,                      \* __call__: module
    step,                        \* __call__: the loop variable of range(steps)
    fn_index,                    \* __call__: index in passes of the next fn
    modified,                    \* __call__: modified
    overall_modified,            \* __call__: overall_modified
    outcome,                     \* what the last operation returned or raised
    counts,                      \* history: invocations of each list position
    step_flags,                  \* history: per step, OR of the reported flags
    last_module,                 \* history: module the last pass returned
    checks,                      \* history: invocations of the check hook
    checked,                     \* history: module the hook was last given
    fn_returned,                 \* history: what the callable inside the last
                                 \*          wrapped pass returned
    class_passes,                \* the list PassManager.passes (class attribute)
    class_constraints,           \* the list PassManager.constraints
    passes_shared,               \* self.passes is the list PassManager.passes
    constraints_shared           \* self.constraints is PassManager.constraints

config == <<steps, run_checks_after_each_pass, suppress_check_failures>>
locals == <<pc, module, step, fn_index, modified, overall_modified>>
history == <<counts, step_flags, last_module, checks, checked, fn_returned>>
class_state ==
    <<class_passes, class_constraints, passes_shared, constraints_shared>>
vars ==
    <<passes, constraints, validated, config, locals, outcome, history,
      class_state>>

Outcome(op, error, info) == [op |-> op, error |-> error, info |-> info]

\* Outside __call__ its locals do not exist, and the history is that of the
\* operation just performed.
NoLocals ==
    /\ pc' = "idle"
    /\ module' = None
    /\ step' = 0
    /\ fn_index' = 0
    /\ modified' = FALSE
    /\ overall_modified' = FALSE

NoHistory ==
    /\ counts' = <<>>
    /\ step_flags' = <<>>
    /\ last_module' = None
    /\ checks' = 0
    /\ checked' = None
    /\ fn_returned' = None

\* PassManager(passes = ps, constraints = cs, steps = s,
\*             run_checks_after_each_pass = r, suppress_check_failures = q)
\* as the first manager of the process: the class-level lists are empty, and
\* "if passes:" / "if constraints:" leave an empty argument unassigned, so the
\* attribute is then the class-level list.
Construct(ps, cs, s, r, q) ==
    /\ passes = ps
    /\ constraints = cs
    /\ validated = FALSE
    /\ steps = s
    /\ run_checks_after_each_pass = r
    /\ suppress_check_failures = q
    /\ pc = "idle"
    /\ module = None
    /\ step = 0
    /\ fn_index = 0
    /\ modified = FALSE
    /\ overall_modified = FALSE
    /\ outcome = Outcome("__init__", "none", <<>>)
    /\ counts = <<>>
    /\ step_flags = <<>>
    /\ last_module = None
    /\ checks = 0
    /\ checked = None
    /\ fn_returned = None
    /\ class_passes = <<>>
    /\ class_constraints = <<>>
    /\ passes_shared = (ps = <<>>)
    /\ constraints_shared = (cs = <<>>)

\* PassManager(steps = s, run_checks_after_each_pass = r).
Init ==
    \E s \in 1..MaxSteps, r \in BOOLEAN :
        Construct(<<>>, <<>>, s, r, FALSE)

AddPass(p) ==
    /\ pc = "idle"
    /\ Len(passes) < MaxPasses
    /\ passes' = Append(passes, p)
    /\ validated' = FALSE
    /\ class_passes' = IF passes_shared THEN passes' ELSE class_passes
    /\ outcome' = Outcome("add_pass", "none", <<>>)
    /\ NoLocals /\ NoHistory
    /\ UNCHANGED <<constraints, config>>
    /\ UNCHANGED <<class_constraints, passes_shared, constraints_shared>>

\* add_constraint without "self._validated = False".
AddConstraintKeepsValidated(c) ==
    /\ pc = "idle"
    /\ Len(constraints) < MaxConstraints
    /\ constraints' = Append(constraints, c)
    /\ class_constraints' =
          IF constraints_shared THEN constraints' ELSE class_constraints
    /\ outcome' = Outcome("add_constraint", "none", <<>>)
    /\ NoLocals /\ NoHistory
    /\ UNCHANGED <<passes, validated, config>>
    /\ UNCHANGED <<class_passes, passes_shared, constraints_shared>>

AddConstraint(c) ==
    /\ pc = "idle"
    /\ Len(constraints) < MaxConstraints
    /\ constraints' = Append(constraints, c)
    /\ validated' = FALSE
    /\ class_constraints' =
          IF constraints_shared THEN constraints' ELSE class_constraints
    /\ outcome' = Outcome("add_constraint", "none", <<>>)
    /\ NoLocals /\ NoHistory
    /\ UNCHANGED <<passes, config>>
    /\ UNCHANGED <<class_passes, passes_shared, constraints_shared>>

\* validate_constraints setting self._validated before the loop.
ValidateConstraintsEager ==
    /\ pc = "idle"
    /\ LET e == FirstScheduleError(constraints, passes, 1) IN
       IF ~validated /\ e # NoViolation
       THEN outcome' = Outcome("validate_constraints", "ScheduleViolation", e)
       ELSE outcome' = Outcome("validate_constraints", "none", <<>>)
    /\ validated' = TRUE
    /\ NoLocals /\ NoHistory
    /\ UNCHANGED <<passes, constraints, config, class_state>>

ValidateConstraints ==
    /\ pc = "idle"
    /\ IF validated
       THEN /\ outcome' = Outcome("validate_constraints", "none", <<>>)
            /\ UNCHANGED validated
       ELSE LET e == FirstScheduleError(constraints, passes, 1) IN
            IF e # NoViolation
            THEN /\ outcome' = Outcome("validate_constraints",
                                       "ScheduleViolation", e)
                 /\ UNCHANGED validated
            ELSE /\ outcome' = Outcome("validate_constraints", "none", <<>>)
                 /\ validated' = TRUE
    /\ NoLocals /\ NoHistory
    /\ UNCHANGED <<passes, constraints, config, class_state>>

\* solve_constraints raising when a cycle was found or steps is 1.
solve_constraints_or ==
    CHOOSE res \in
        {IF r.error # "none"
         THEN [passes |-> passes, rebound |-> FALSE,
               validated |-> validated, error |-> r.error,
               circular_dep |-> r.circular_dependency, broken |-> r.broken]
         ELSE IF r.circular_dependency \/ steps = 1
         THEN [passes |-> r.sorted_passes, rebound |-> constraints # <<>>,
               validated |-> validated, error |-> "CircularDependency",
               circular_dep |-> r.circular_dependency, broken |-> r.broken]
         ELSE [passes |-> r.sorted_passes, rebound |-> constraints # <<>>,
               validated |-> TRUE, error |-> "none",
               circular_dep |-> r.circular_dependency,
               broken |-> r.broken] :
            r \in {topological_sort_passes(passes, constraints)}} : TRUE

\* solve_constraints raising on every cycle, whatever steps is.
solve_constraints_strict ==
    CHOOSE res \in
        {IF r.error # "none"
         THEN [passes |-> passes, rebound |-> FALSE,
               validated |-> validated, error |-> r.error,
               circular_dep |-> r.circular_dependency, broken |-> r.broken]
         ELSE IF r.circular_dependency
         THEN [passes |-> r.sorted_passes, rebound |-> constraints # <<>>,
               validated |-> validated, error |-> "CircularDependency",
               circular_dep |-> r.circular_dependency, broken |-> r.broken]
         ELSE [passes |-> r.sorted_passes, rebound |-> constraints # <<>>,
               validated |-> TRUE, error |-> "none",
               circular_dep |-> r.circular_dependency,
               broken |-> r.broken] :
            r \in {topological_sort_passes(passes, constraints)}} : TRUE

\* solve_constraints applied to the manager: the pass list and the validated
\* flag it leaves, the exception it raises ("none" when it returns), the
\* scheduler's cycle flag and the in-degrees its cycle breaks overrode.  An
\* exception of the scheduler leaves self.passes unassigned; the RuntimeError
\* of line 264 is raised after the assignment.  rebound: self.passes was
\* assigned a list other than the one it held (with no constraints the
\* scheduler returns the very list it was given).
solve_constraints ==
    CHOOSE res \in
        {IF r.error # "none"
         THEN [passes |-> passes, rebound |-> FALSE,
               validated |-> validated, error |-> r.error,
               circular_dep |-> r.circular_dependency, broken |-> r.broken]
         ELSE IF r.circular_dependency /\ steps = 1
         THEN [passes |-> r.sorted_passes, rebound |-> constraints # <<>>,
               validated |-> validated, error |-> "CircularDependency",
               circular_dep |-> r.circular_dependency, broken |-> r.broken]
         ELSE [passes |-> r.sorted_passes, rebound |-> constraints # <<>>,
               validated |-> TRUE, error |-> "none",
               circular_dep |-> r.circular_dependency,
               broken |-> r.broken] :
            r \in {topological_sort_passes(passes, constraints)}} : TRUE

SolveConstraints ==
    /\ pc = "idle"
    /\ \E res \in {solve_constraints} :
          /\ passes' = res.passes
          /\ validated' = res.validated
          /\ outcome' = Outcome("solve_constraints", res.error,
                                <<res.circular_dep, res.broken>>)
          /\ passes_shared' = (passes_shared /\ ~res.rebound)
    /\ NoLocals /\ NoHistory
    /\ UNCHANGED <<constraints, config>>
    /\ UNCHANGED <<class_passes, class_constraints, constraints_shared>>

\* PassResult(graph_module, modified)
PassResult(gm, m) == [graph_module |-> gm, modified |-> m]

\* The adapters: a wrapped pass is a callable of its own, named after the
\* adapter and the callable it wraps; None is passed through.
inplace_wrapper(fn) ==
    IF fn = None THEN None ELSE "inplace_wrapper(" \o fn \o ")"

pass_result_wrapper(fn) ==
    IF fn = None THEN None ELSE "pass_result_wrapper(" \o fn \o ")"

\* wrapped_fn of inplace_wrapper, built as wrapped_fn of pass_result_wrapper.
inplace_wrapped_fn_rebinds(gm, ret) == PassResult(ret, TRUE)

\* wrapped_fn of inplace_wrapper: fn(gm); return PassResult(gm, True).  ret is
\* what fn(gm) returned.
inplace_wrapped_fn(gm, ret) == PassResult(gm, TRUE)

\* wrapped_fn of pass_result_wrapper: gm = fn(gm); return PassResult(gm, True)
pass_result_wrapped_fn(gm, ret) == PassResult(ret, TRUE)

\* The passes given to the managers of SpecWrap: a pass that returns its own
\* PassResult, and the two adapters around callables that do not.
WrappedPasses == {"A", inplace_wrapper("B"), pass_result_wrapper("C")}

\* res = fn(module).  A pass that is not wrapped returns PassResult(ret, m);
\* for a wrapped one ret is what the callable inside it returns.
Invoke(fn, gm, ret, m) ==
    IF fn \in {inplace_wrapper(f) : f \in Passes}
    THEN inplace_wrapped_fn(gm, ret)
    ELSE IF fn \in {pass_result_wrapper(f) : f \in Passes}
    THEN pass_result_wrapped_fn(gm, ret)
    ELSE PassResult(ret, m)

IsWrapped(fn) ==
    fn \in {inplace_wrapper(f) : f \in Passes}
             \cup {pass_result_wrapper(f) : f \in Passes}

\* __call__ without "if not self._validated: self.solve_constraints()".
CallStale(m) ==
    /\ pc = "idle"
    /\ \E ok \in BOOLEAN :
          IF ~ok
          THEN /\ outcome' = Outcome("__call__", "CheckFailure", <<>>)
               /\ NoLocals
               /\ counts' = <<>> /\ step_flags' = <<>>
               /\ last_module' = None /\ checks' = 1
               /\ checked' = m /\ fn_returned' = None
          ELSE /\ outcome' = Outcome("__call__", "running", <<>>)
               /\ pc' = "running"
               /\ module' = m
               /\ step' = 0
               /\ fn_index' = 1
               /\ modified' = FALSE
               /\ overall_modified' = FALSE
               /\ counts' = [i \in 1..Len(passes) |-> 0]
               /\ step_flags' = <<FALSE>>
               /\ last_module' = m
               /\ checks' = 1
               /\ checked' = m /\ fn_returned' = None
    /\ UNCHANGED <<passes, validated, constraints, config, class_state>>

\* __call__ up to the first pass: lines 294-303.  m is the module given; the
\* check hook returns (ok) or raises.
Call(m) ==
    /\ pc = "idle"
    /\ \E res \in {IF validated
                    THEN [passes |-> passes, rebound |-> FALSE,
                          validated |-> validated, error |-> "none",
                          circular_dep |-> FALSE, broken |-> 0]
                    ELSE solve_constraints},
          ok \in BOOLEAN :
          /\ passes' = res.passes
          /\ validated' = res.validated
          /\ passes_shared' = (passes_shared /\ ~res.rebound)
          /\ IF res.error # "none"
             THEN /\ ok
                  /\ outcome' = Outcome("__call__", res.error,
                                        <<res.circular_dep, res.broken>>)
                  /\ NoLocals /\ NoHistory
             ELSE IF ~ok
             THEN /\ outcome' = Outcome("__call__", "CheckFailure", <<>>)
                  /\ NoLocals
                  /\ counts' = <<>> /\ step_flags' = <<>>
                  /\ last_module' = None /\ checks' = 1
                  /\ checked' = m /\ fn_returned' = None
             ELSE /\ outcome' = Outcome("__call__", "running", <<>>)
                  /\ pc' = "running"
                  /\ module' = m
                  /\ step' = 0
                  /\ fn_index' = 1
                  /\ modified' = FALSE
                  /\ overall_modified' = FALSE
                  /\ counts' = [i \in 1..Len(passes') |-> 0]
                  /\ step_flags' = <<FALSE>>
                  /\ last_module' = m
                  /\ checks' = 1
                  /\ checked' = m /\ fn_returned' = None
    /\ UNCHANGED <<constraints, config>>
    /\ UNCHANGED <<class_passes, class_constraints, constraints_shared>>

\* RunPass with the hook invoked after every pass, whatever the flag is.
RunPassAlwaysChecks ==
    /\ pc = "running"
    /\ fn_index <= Len(passes)
    /\ \E ret \in Modules, m \in BOOLEAN, ok \in BOOLEAN :
          LET res == Invoke(passes[fn_index], module, ret, m) IN
          /\ counts' = [counts EXCEPT ![fn_index] = @ + 1]
          /\ step_flags' =
                [step_flags EXCEPT ![Len(step_flags)] = @ \/ res.modified]
          /\ last_module' = res.graph_module
          /\ fn_returned' = IF IsWrapped(passes[fn_index]) THEN ret ELSE None
          /\ checks' = checks + 1
          /\ checked' = res.graph_module
          /\ IF ~ok
             THEN /\ outcome' = Outcome("__call__", "CheckFailure", <<>>)
                  /\ NoLocals
             ELSE /\ module' = res.graph_module
                  /\ modified' = (modified \/ res.modified)
                  /\ fn_index' = fn_index + 1
                  /\ UNCHANGED <<pc, step, overall_modified, outcome>>
    /\ UNCHANGED <<passes, constraints, validated, config, class_state>>

\* One iteration of "for fn in self.passes": lines 307-318.  The check hook,
\* when run, returns (ok) or raises.
\* (module.recompile() acts on the module's contents, which are not modelled.)
RunPass ==
    /\ pc = "running"
    /\ fn_index <= Len(passes)
    /\ \E ret \in Modules, m \in BOOLEAN, ok \in BOOLEAN :
          LET res == Invoke(passes[fn_index], module, ret, m) IN
          /\ counts' = [counts EXCEPT ![fn_index] = @ + 1]
          /\ step_flags' =
                [step_flags EXCEPT ![Len(step_flags)] = @ \/ res.modified]
          /\ last_module' = res.graph_module
          /\ fn_returned' = IF IsWrapped(passes[fn_index]) THEN ret ELSE None
          /\ checks' = IF run_checks_after_each_pass THEN checks + 1 ELSE checks
          /\ checked' = IF run_checks_after_each_pass
                        THEN res.graph_module ELSE checked
          /\ IF run_checks_after_each_pass /\ ~ok
             THEN /\ outcome' = Outcome("__call__", "CheckFailure", <<>>)
                  /\ NoLocals
             ELSE /\ module' = res.graph_module
                  /\ modified' = (modified \/ res.modified)
                  /\ fn_index' = fn_index + 1
                  /\ UNCHANGED <<pc, step, overall_modified, outcome>>
    /\ UNCHANGED <<passes, constraints, validated, config, class_state>>

\* EndStep without "if not modified: break".
EndStepNoBreak ==
    /\ pc = "running"
    /\ fn_index > Len(passes)
    /\ IF step + 1 >= steps
       THEN /\ outcome' = Outcome("__call__", "none",
                                  <<module, overall_modified \/ modified>>)
            /\ NoLocals
            /\ UNCHANGED step_flags
       ELSE /\ overall_modified' = (overall_modified \/ modified)
            /\ step' = step + 1
            /\ modified' = FALSE
            /\ fn_index' = 1
            /\ step_flags' = Append(step_flags, FALSE)
            /\ UNCHANGED <<pc, module, outcome>>
    /\ UNCHANGED <<passes, constraints, validated, config, class_state>>
    /\ UNCHANGED <<counts, last_module, checks, checked, fn_returned>>

\* EndStep returning PassResult(module, modified).
EndStepReturnsModified ==
    /\ pc = "running"
    /\ fn_index > Len(passes)
    /\ IF ~modified \/ step + 1 >= steps
       THEN /\ outcome' = Outcome("__call__", "none", <<module, modified>>)
            /\ NoLocals
            /\ UNCHANGED step_flags
       ELSE /\ overall_modified' = (overall_modified \/ modified)
            /\ step' = step + 1
            /\ modified' = FALSE
            /\ fn_index' = 1
            /\ step_flags' = Append(step_flags, FALSE)
            /\ UNCHANGED <<pc, module, outcome>>
    /\ UNCHANGED <<passes, constraints, validated, config, class_state>>
    /\ UNCHANGED <<counts, last_module, checks, checked, fn_returned>>

\* The end of one step: lines 321-325, and the next "modified = False".
EndStep ==
    /\ pc = "running"
    /\ fn_index > Len(passes)
    /\ IF ~modified \/ step + 1 >= steps
       THEN /\ outcome' = Outcome("__call__", "none",
                                  <<module, overall_modified \/ modified>>)
            /\ NoLocals
            /\ UNCHANGED step_flags
       ELSE /\ overall_modified' = (overall_modified \/ modified)
            /\ step' = step + 1
            /\ modified' = FALSE
            /\ fn_index' = 1
            /\ step_flags' = Append(step_flags, FALSE)
            /\ UNCHANGED <<pc, module, outcome>>
    /\ UNCHANGED <<passes, constraints, validated, config, class_state>>
    /\ UNCHANGED <<counts, last_module, checks, checked, fn_returned>>

Next ==
    \/ \E p \in ManagerPasses : AddPass(p)
    \/ \E c \in ConstraintsOver(ManagerPasses) : AddConstraint(c)
    \/ ValidateConstraints
    \/ SolveConstraints
    \/ \E m \in Modules : Call(m)
    \/ RunPass
    \/ EndStep

Spec == Init /\ [][Next]_vars

\* The scheduler on its own: managers constructed with every pass list and
\* constraint list within the bounds, to which solve_constraints is applied.
InitSort ==
    \E ps \in SeqsUpTo(Passes, MaxSortPasses),
       cs \in SeqsUpTo(ConstraintsOver(Passes), MaxSortConstraints),
       s \in SortSteps :
        Construct(ps, cs, s, FALSE, FALSE)

NextSort == SolveConstraints

SpecSort == InitSort /\ [][NextSort]_vars

\* A second manager, constructed by PassManager() and never solved: its
\* attributes are the class-level lists, which add_pass and add_constraint
\* append to (its own _validated is set, the first manager's is not).
PeerAddPass(p) ==
    /\ pc = "idle"
    /\ Len(class_passes) < MaxPasses
    /\ Len(passes) < MaxPasses
    /\ class_passes' = Append(class_passes, p)
    /\ passes' = IF passes_shared THEN class_passes' ELSE passes
    /\ outcome' = Outcome("peer.add_pass", "none", <<>>)
    /\ NoLocals /\ NoHistory
    /\ UNCHANGED <<constraints, validated, config>>
    /\ UNCHANGED <<class_constraints, passes_shared, constraints_shared>>

PeerAddConstraint(c) ==
    /\ pc = "idle"
    /\ Len(class_constraints) < MaxConstraints
    /\ Len(constraints) < MaxConstraints
    /\ class_constraints' = Append(class_constraints, c)
    /\ constraints' =
          IF constraints_shared THEN class_constraints' ELSE constraints
    /\ outcome' = Outcome("peer.add_constraint", "none", <<>>)
    /\ NoLocals /\ NoHistory
    /\ UNCHANGED <<passes, validated, config>>
    /\ UNCHANGED <<class_passes, passes_shared, constraints_shared>>

\* What the second manager reads as its pass list and constraint list.
peer_passes == class_passes
peer_constraints == class_constraints

\* Two managers in one process.
NextShared ==
    \/ \E p \in ManagerPasses : AddPass(p)
    \/ \E c \in ConstraintsOver(ManagerPasses) : AddConstraint(c)
    \/ \E p \in ManagerPasses : PeerAddPass(p)
    \/ \E c \in ConstraintsOver(ManagerPasses) : PeerAddConstraint(c)
    \/ SolveConstraints

SpecShared == Init /\ [][NextShared]_vars

\* Managers constructed with wrapped passes and no constraints, then invoked.
InitWrap ==
    \E ps \in SeqsUpTo(WrappedPasses, MaxPasses),
       s \in 1..MaxSteps, r \in BOOLEAN, q \in BOOLEAN :
        Construct(ps, <<>>, s, r, q)

NextWrap ==
    \/ \E m \in Modules : Call(m)
    \/ RunPass
    \/ EndStep

SpecWrap == InitWrap /\ [][NextWrap]_vars

(***************************************************************************)
(* Notions the properties are stated with                                  *)
(***************************************************************************)
A == "A"
B == "B"
C == "C"

before(x, y) == this_before_that_pass_constraint(x, y)

\* Every constraint holds for every pair of positions i < j of the order.
Valid(ps, cs) ==
    \A k \in 1..Len(cs) : \A i, j \in 1..Len(ps) :
        i < j => depends_on(cs[k], ps[i], ps[j])

\* The derived graph: <<b, a>> is the edge "b must precede a".
DerivedEdges(S, cs) ==
    {e \in S \X S : /\ e[1] # e[2]
                    /\ \E k \in 1..Len(cs) : ~depends_on(cs[k], e[2], e[1])}

RECURSIVE Closure(_, _)
Closure(R, n) ==
    IF n = 0 THEN R
    ELSE Closure(R \cup {<<ef[1][1], ef[2][2]>> :
                            ef \in {p \in R \X R : p[1][2] = p[2][1]}},
                 n - 1)

Acyclic(S, cs) ==
    \A x \in S : <<x, x>> \notin Closure(DerivedEdges(S, cs), Cardinality(S))

IsPermutation(q, ps) ==
    /\ Len(q) = Len(ps)
    /\ \A x \in Range(ps) \cup Range(q) :
          Cardinality({i \in 1..Len(q) : q[i] = x})
              = Cardinality({i \in 1..Len(ps) : ps[i] = x})

\* The orders of the passes of a list of distinct passes.
Orders(ps) == {q \in [1..Len(ps) -> Range(ps)] : Range(q) = Range(ps)}

\* The number of derived edges (one per constraint that derives it) that the
\* order breaks: b must precede a, and a stands before b.
BrokenEdges(order, cs) ==
    Cardinality({t \in (1..Len(order)) \X (1..Len(order)) \X (1..Len(cs)) :
                    /\ t[1] < t[2]
                    /\ ~depends_on(cs[t[3]], order[t[1]], order[t[2]])})

MinBrokenEdges(ps, cs) ==
    CHOOSE n \in 0..(Len(ps) * Len(ps) * Len(cs)) :
        /\ \E q \in Orders(ps) : BrokenEdges(q, cs) = n
        /\ \A q \in Orders(ps) : BrokenEdges(q, cs) >= n

Solved == outcome.op = "solve_constraints"

(***************************************************************************)
(* Properties                                                              *)
(***************************************************************************)
\* C1: for pairwise distinct passes and constraints whose derived graph is
\* acyclic, solve_constraints returns and leaves an order in which every
\* constraint holds for every pair of positions i < j; with before(A, B) and
\* before(B, C) over the passes A, B, C the order is exactly <<A, B, C>>.
C1_AcyclicConstraintsAreHonoured ==
    [][(Solved' /\ Distinct(passes)
            /\ Acyclic(Range(passes), constraints)) =>
          /\ outcome'.error = "none"
          /\ outcome'.info[1] = FALSE
          /\ Valid(passes', constraints)
          /\ (constraints = <<before(A, B), before(B, C)>>
                  /\ Range(passes) = {A, B, C})
                => passes' = <<A, B, C>>]_vars

C1_Witness ==
    /\ Solved
    /\ constraints = <<before(A, B), before(B, C)>>
    /\ passes = <<A, B, C>>
    /\ validated

\* C2: with no constraints solve_constraints leaves the pass list as it was,
\* reports no cycle and marks the manager validated, whatever the pass list
\* and the step budget.
C2_NoConstraintsNoChange ==
    [][(Solved' /\ constraints = <<>>) =>
          /\ passes' = passes
          /\ outcome'.error = "none"
          /\ outcome'.info[1] = FALSE
          /\ validated']_vars

C2_Witness ==
    /\ Solved
    /\ constraints = <<>>
    /\ passes = <<C, A, B>>
    /\ steps = 1
    /\ validated

\* The passes A, B under the contradictory constraints before(A, B) and
\* before(B, A).
Contradictory ==
    /\ constraints = <<before(A, B), before(B, A)>>
    /\ Len(passes) = 2
    /\ Range(passes) = {A, B}

\* C3: solve_constraints raises the circular-dependency error exactly when the
\* scheduler found a cycle and the step budget is 1; otherwise it returns and
\* the manager is validated.  With before(A, B) and before(B, A) over A, B:
\* budget 1 makes solve_constraints and the invocation fail, a budget of 2 or
\* more makes them succeed, with the cycle reported.
C3_CircularDependencyIffBudgetOne ==
    /\ (Solved /\ outcome.error # "AssertionError") =>
          /\ outcome.error = "CircularDependency"
                <=> (outcome.info[1] /\ steps = 1)
          /\ outcome.error = "none" => validated
    /\ (Contradictory /\ outcome.op \in {"solve_constraints", "__call__"}) =>
          IF steps = 1
          THEN outcome.error = "CircularDependency" /\ ~validated
          ELSE /\ outcome.error # "CircularDependency"
               /\ validated
               /\ Solved => (outcome.error = "none" /\ outcome.info[1])

C3_Witness ==
    /\ Contradictory
    /\ Solved
    /\ steps >= 2
    /\ outcome.error = "none"
    /\ outcome.info[1] = TRUE
    /\ validated

\* C4: for pairwise distinct passes and a non-empty constraint list, cyclic
\* or not, the scheduler returns and the order it leaves is a permutation of
\* the pass list it was given.
C4_TotalOrder ==
    [][(Solved' /\ Distinct(passes) /\ constraints # <<>>) =>
          /\ outcome'.error \in {"none", "CircularDependency"}
          /\ IsPermutation(passes', passes)]_vars

C4_Witness ==
    /\ Solved
    /\ Len(passes) = 3
    /\ Distinct(passes)
    /\ ~Acyclic(Range(passes), constraints)
    /\ outcome.info[1] = TRUE

\* C5 as claimed: the order the scheduler leaves breaks the fewest derived
\* edges that any order of the passes breaks.
C5_FewestBrokenEdges ==
    [][(Solved' /\ Distinct(passes) /\ outcome'.error # "AssertionError") =>
          BrokenEdges(passes', constraints)
              = MinBrokenEdges(passes, constraints)]_vars

\* C5 as amended: the order is a greedy best effort.  The derived edges it
\* breaks are exactly the in-degrees the cycle breaks overrode (each the
\* minimum in-degree among the passes not yet visited); none is broken when
\* no cycle was broken, and the count is not below the minimum over all
\* orders, which it need not attain.
C5_GreedyBrokenEdges ==
    [][(Solved' /\ Distinct(passes) /\ outcome'.error # "AssertionError") =>
          /\ BrokenEdges(passes', constraints) = outcome'.info[2]
          /\ ~outcome'.info[1] => BrokenEdges(passes', constraints) = 0
          /\ BrokenEdges(passes', constraints)
                >= MinBrokenEdges(passes, constraints)]_vars

C5_Witness ==
    /\ Solved
    /\ Distinct(passes)
    /\ outcome.info[1] = TRUE
    /\ BrokenEdges(passes, constraints) = 2
    /\ MinBrokenEdges(passes, constraints) = 1

\* C6 as claimed: whenever validate_constraints returns normally, every
\* constraint holds for every pair of positions i < j of the pass order.
C6_ValidateReturnsOnlyOnValidOrder ==
    (outcome.op = "validate_constraints" /\ outcome.error = "none") =>
        Valid(passes, constraints)

\* C7: validate_constraints changes neither the pass list nor the constraint
\* list, and when it raises the schedule violation the manager is still not
\* validated.
C7_ValidateIsPure ==
    [][(outcome'.op = "validate_constraints") =>
          /\ passes' = passes
          /\ constraints' = constraints
          /\ outcome'.error = "ScheduleViolation"
                => (~validated' /\ ~Valid(passes, constraints))]_vars

C7_Witness ==
    /\ outcome.op = "validate_constraints"
    /\ outcome.error = "ScheduleViolation"
    /\ passes = <<B, A>>
    /\ constraints = <<before(A, B)>>
    /\ ~validated

\* C8 as claimed (for pairwise distinct passes): when solve_constraints raises
\* the circular-dependency error the pass order is the one it had before the
\* call, and the manager is not validated.
C8_CircularDependencyInstallsNothing ==
    [][(outcome'.error = "CircularDependency" /\ Distinct(passes)) =>
          (passes' = passes /\ ~validated')]_vars

\* The invocation has returned a PassResult.
Returned == outcome.op = "__call__" /\ outcome.error = "none"

\* C9: an invocation that returns has executed k steps, where k is the step
\* budget or the first step in which no pass reported modified, whichever
\* comes first, and has invoked every pass k times, once per step; while it
\* runs, no step follows a step without a modification.
C9_StopsAtFixedPoint ==
    /\ Returned =>
          LET k == Len(step_flags) IN
          /\ 1 <= k /\ k <= steps
          /\ \A i \in 1..(k - 1) : step_flags[i]
          /\ step_flags[k] => k = steps
          /\ Len(counts) = Len(passes)
          /\ \A i \in 1..Len(passes) : counts[i] = k
    /\ pc = "running" =>
          /\ Len(step_flags) = step + 1
          /\ step < steps
          /\ \A i \in 1..step : step_flags[i]
          /\ \A i \in 1..Len(passes) :
                counts[i] = step + (IF i < fn_index THEN 1 ELSE 0)

C9_Witness ==
    /\ Returned
    /\ steps = 3
    /\ Len(passes) = 2
    /\ step_flags = <<FALSE>>
    /\ counts = <<1, 1>>

\* C10: the PassResult returned holds the module the last pass invocation
\* returned (the module given when no pass ran) and a modified flag that is
\* the OR of the flags reported by all pass invocations of the call.
C10_ResultIsLastModuleAndOrOfFlags ==
    Returned =>
        /\ outcome.info[1] = last_module
        /\ outcome.info[2] = (\E i \in 1..Len(step_flags) : step_flags[i])
        /\ passes = <<>> => outcome.info = <<last_module, FALSE>>

C10_Witness ==
    /\ Returned
    /\ step_flags = <<TRUE, FALSE>>
    /\ outcome.info = <<"m1", TRUE>>

RECURSIVE Sum(_)
Sum(q) == IF q = <<>> THEN 0 ELSE Head(q) + Sum(Tail(q))

\* The last operation was add_pass or add_constraint.
Added == outcome.op \in {"add_pass", "add_constraint"}

\* C11: add_pass and add_constraint leave the manager not validated, and the
\* invocation that follows solves the constraints before it runs any pass:
\* unless the solve fails (and then no pass and no hook is invoked), the order
\* it starts executing holds the pass just added, is the scheduler's order for
\* the lists as they now are, holds every constraint (the one just added
\* included) when the passes are distinct and the constraints acyclic, and
\* the manager is validated.
C11_AddInvalidatesAndCallResolves ==
    [][/\ Added' => ~validated'
       /\ (Added /\ outcome'.op = "__call__") =>
             LET r == topological_sort_passes(passes, constraints) IN
             IF r.error = "none" /\ ~(r.circular_dependency /\ steps = 1)
             THEN /\ validated'
                  /\ passes' = r.sorted_passes
                  /\ outcome.op = "add_pass" =>
                        passes[Len(passes)] \in Range(passes')
                  /\ (Distinct(passes) /\ Acyclic(Range(passes), constraints))
                        => Valid(passes', constraints)
                  /\ pc' = "running" => Sum(counts') = 0
             ELSE /\ outcome'.error \in {"CircularDependency", "AssertionError"}
                  /\ pc' = "idle"
                  /\ counts' = <<>>
                  /\ checks' = 0]_vars

C11_Witness ==
    /\ outcome.op = "__call__"
    /\ pc = "running"
    /\ class_passes = <<B, A>>
    /\ constraints = <<before(A, B)>>
    /\ passes = <<A, B>>
    /\ validated
    /\ Sum(counts) = 0

\* C12 as claimed: add_pass or add_constraint on one manager changes neither
\* list that the other manager reads.
C12_StoragePerInstance ==
    [][/\ Added' => /\ peer_passes' = peer_passes
                    /\ peer_constraints' = peer_constraints
       /\ outcome'.op \in {"peer.add_pass", "peer.add_constraint"} =>
             /\ passes' = passes
             /\ constraints' = constraints]_vars

\* The invocation failed on the check hook.
CheckFailed == outcome.op = "__call__" /\ outcome.error = "CheckFailure"

\* C13: the hook is first invoked on the module given, before any pass; when
\* that check fails no pass is invoked.  With run_checks_after_each_pass the
\* hook is invoked once more after every pass invocation, on the module the
\* pass returned, and a failure there ends the run before the next pass;
\* without it the hook is invoked exactly once per invocation.
C13_CheckHookProtocol ==
    /\ (pc = "running" \/ Returned) =>
          checks = 1 + (IF run_checks_after_each_pass THEN Sum(counts) ELSE 0)
    /\ (pc = "running" /\ Sum(counts) = 0) => checked = module
    /\ (pc = "running" /\ Sum(counts) > 0 /\ run_checks_after_each_pass) =>
          checked = module /\ checked = last_module
    /\ CheckFailed =>
          /\ pc = "idle"
          /\ IF Sum(counts) = 0
             THEN checks = 1 /\ last_module = None
             ELSE /\ run_checks_after_each_pass
                  /\ checks = 1 + Sum(counts)
                  /\ checked = last_module
                  /\ \A i, j \in 1..Len(counts) :
                        i < j => counts[i] \in {counts[j], counts[j] + 1}

C13_Witness ==
    /\ CheckFailed
    /\ run_checks_after_each_pass
    /\ counts = <<1, 0>>
    /\ checks = 2
    /\ checked = "m1"

\* C14 as claimed: with suppress_check_failures set, no invocation fails with
\* the check failure.
C14_SuppressedFailureDoesNotAbort ==
    suppress_check_failures => ~CheckFailed

\* C15: a pass wrapped by inplace_wrapper returns the module it was given and
\* modified = true, whatever the callable inside it returned; a pass wrapped
\* by pass_result_wrapper returns the module the callable inside it returned
\* and modified = true.
C15_AdaptersReportModified ==
    [][(pc = "running" /\ counts' # counts) =>
          LET fn == passes[fn_index] IN
          /\ fn = inplace_wrapper(B) =>
                /\ last_module' = module
                /\ step_flags'[Len(step_flags')]
          /\ fn = pass_result_wrapper(C) =>
                /\ last_module' = fn_returned'
                /\ step_flags'[Len(step_flags')]
          /\ inplace_wrapper(None) = None
          /\ pass_result_wrapper(None) = None]_vars

C15_Witness ==
    /\ pc = "running"
    /\ passes = <<inplace_wrapper(B), pass_result_wrapper(C)>>
    /\ fn_index = 2
    /\ step = 0
    /\ fn_returned = "m1"
    /\ module = "m0"
    /\ modified

\* C16: in a manager with step budget 1, after any sequence of operations,
\* while an invocation executes passes the manager is validated and every
\* constraint holds for every pair of positions i < j of the order; and an
\* invocation under constraints that are cyclic over the passes fails with no
\* hook and no pass invoked.
C16_BudgetOneRunsOnlyValidOrder ==
    /\ (steps = 1 /\ pc = "running") =>
          validated /\ Valid(passes, constraints)
    /\ (steps = 1 /\ outcome.op = "__call__"
            /\ ~Acyclic(Range(passes), constraints)) =>
          /\ outcome.error \in {"CircularDependency", "AssertionError"}
          /\ pc = "idle"
          /\ checks = 0
          /\ counts = <<>>

C16_Witness ==
    /\ steps = 1
    /\ outcome.op = "__call__"
    /\ outcome.error = "CircularDependency"
    /\ Contradictory
    /\ checks = 0

\* C17: for pairwise distinct passes the scheduler reports a cycle exactly
\* when the derived graph over the passes has one.
C17_CyclicFlagIffCycle ==
    [][(Solved' /\ Distinct(passes)) =>
          (outcome'.info[1] <=> ~Acyclic(Range(passes), constraints))]_vars

C17_Witness ==
    /\ Solved
    /\ steps = 2
    /\ passes = <<C, A, B>>
    /\ constraints = <<before(A, B), before(B, A)>>
    /\ outcome.info[1] = TRUE

\* C18 as claimed: the schedule violation reports the two passes with their
\* indices i < j in the pass list.
C18_ErrorReportsListPositions ==
    (outcome.op = "validate_constraints"
        /\ outcome.error = "ScheduleViolation") =>
        /\ outcome.info.i < outcome.info.j
        /\ passes[outcome.info.i + 1] = outcome.info.a
        /\ passes[outcome.info.j + 1] = outcome.info.b

\* C19 as claimed: for every pass list, repeats included, the assertion of
\* break_cycles holds and the scheduler returns a list as long as its input.
C19_AssertionNeverFails ==
    [][Solved' =>
          /\ outcome'.error # "AssertionError"
          /\ Len(passes') = Len(passes)]_vars

====
